---- MODULE Spec2Model ----
(***************************************************************************)
(* Model of the package-spec schema generator: the document patcher        *)
(* (patchSchema), the manifest synthesizer (combinedManifestSchema), the   *)
(* release-tag discovery (GetReleaseTags), the generation run              *)
(* (run / writeSchemas) and the bundler (.generate/bundle).                *)
(*                                                                         *)
(* Strings the program takes apart (references, paths, tags, versions)     *)
(* are sequences of one-character strings, so that the Go string           *)
(* functions are modelled character by character.  Map keys and            *)
(* configuration values that are only compared are TLA+ strings.           *)
(***************************************************************************)
EXTENDS Integers, Sequences, FiniteSets, TLC

VARIABLES
    dialect,       \* flag -d: the JSON Schema dialect of the run
    spec,          \* patchSchema: the document being patched in place
    rawSpec,       \* the raw spec body handed to the first patchSchema call
    oncePatched,   \* the document after the first patchSchema call
    patchCalls,    \* number of patchSchema calls made on spec
    relativePath,  \* patchSchema argument
    version,       \* patchSchema argument
    gitRef,        \* flag -git-ref; the empty string when not given
    tags,          \* names of the tags of the cloned repository
    pc,            \* where run() is
    gitRefs,       \* run: the references to generate schemas from, in order
    idx,           \* run: position of the loop over gitRefs
    ver,           \* writeSchemas: version label of the reference in work
    wt,            \* the working tree as the last checkout left it
    head,          \* the reference the last checkout put the working tree at
    pending,       \* writeSchemas: files util.Walk has still to visit
    written,       \* writeSchemas: relative paths written so far
    dirFiles,      \* the files under dir (<outDir>/<ver>/jsonschema)
    synthesized,   \* writeSchemas: combinedManifestSchema was called
    processed,     \* version labels whose writeSchemas returned nil
    err,           \* the error run() returned; NoError while there is none
    inDir,         \* bundler flag -i; the empty string when not given
    outDir,        \* bundler flag -o; the empty string when not given
    toolInPath,    \* whether exec.LookPath finds the jsonschema tool
    corpus,        \* the files below inDir, in the order filepath.Walk visits them
    schemas,       \* bundler run: the .jsonschema.json files found
    bidx,          \* bundler run: position of the loop over schemas
    bpc,           \* where the bundler's run() is
    invocations,   \* the runs of the jsonschema tool so far and what each gave
    bundles,       \* the files under outDir
    osStderr,      \* what the bundler has printed on os.Stderr
    bundleErr      \* the error the bundler's run() returned

patchVars == <<spec, rawSpec, oncePatched, patchCalls, relativePath, version>>

runVars == <<gitRef, tags, pc, gitRefs, idx, ver, wt, head, pending, written, dirFiles,
             synthesized, processed, err>>

bundleVars == <<inDir, outDir, toolInPath, corpus, schemas, bidx, bpc,
                invocations, bundles, osStderr, bundleErr>>

vars == <<dialect, patchVars, runVars, bundleVars>>

(***************************************************************************)
(* Go's strings package on character sequences.                            *)
(***************************************************************************)

\* strings.HasPrefix
HasPrefix(s, prefix) ==
    /\ Len(prefix) <= Len(s)
    /\ SubSeq(s, 1, Len(prefix)) = prefix

\* strings.HasSuffix
HasSuffix(s, suffix) ==
    /\ Len(suffix) <= Len(s)
    /\ SubSeq(s, Len(s) - Len(suffix) + 1, Len(s)) = suffix

\* strings.TrimPrefix
TrimPrefix(s, prefix) ==
    IF HasPrefix(s, prefix) THEN SubSeq(s, Len(prefix) + 1, Len(s)) ELSE s

\* strings.Index, 1-based; 0 when sub does not occur in s
Index(s, sub) ==
    LET hits == {i \in 1..(Len(s) - Len(sub) + 1) : SubSeq(s, i, i + Len(sub) - 1) = sub}
    IN  IF hits = {} THEN 0 ELSE CHOOSE i \in hits : \A j \in hits : i <= j

\* strings.Contains
Contains(s, sub) == Index(s, sub) # 0

\* strings.Replace(s, old, new, 1): only the first occurrence is replaced
ReplaceFirst(s, old, new) ==
    LET i == Index(s, old)
    IN  IF i = 0 THEN s
        ELSE SubSeq(s, 1, i - 1) \o new \o SubSeq(s, i + Len(old), Len(s))

\* strings.ReplaceAll, left to right, non-overlapping
RECURSIVE ReplaceAll(_, _, _)
ReplaceAll(s, old, new) ==
    LET i == Index(s, old)
    IN  IF i = 0 THEN s
        ELSE SubSeq(s, 1, i - 1) \o new
                 \o ReplaceAll(SubSeq(s, i + Len(old), Len(s)), old, new)

\* strings.SplitN(s, sep, 2) for a one-character separator
SplitN2(s, sep) ==
    LET i == Index(s, sep)
    IN  IF i = 0 THEN <<s>>
        ELSE <<SubSeq(s, 1, i - 1), SubSeq(s, i + Len(sep), Len(s))>>

\* path.Join / filepath.Join of clean, non-empty elements
RECURSIVE JoinPath(_)
JoinPath(elems) ==
    IF Len(elems) = 0 THEN <<>>
    ELSE IF Len(elems) = 1 THEN elems[1]
    ELSE elems[1] \o <<"/">> \o JoinPath(Tail(elems))

(***************************************************************************)
(* String literals of the program.                                         *)
(***************************************************************************)

SpecYml == <<".", "s", "p", "e", "c", ".", "y", "m", "l">>

JsonSchemaJson ==
    <<".", "j", "s", "o", "n", "s", "c", "h", "e", "m", "a", ".", "j", "s", "o", "n">>

\* "manifest.jsonschema.json"
ManifestJsonSchemaJson == <<"m", "a", "n", "i", "f", "e", "s", "t">> \o JsonSchemaJson

Hash == <<"#">>

Caret == <<"^">>

PercentFiveE == <<"%", "5", "E">>

\* flag -base-uri, at its default "https://schemas.elastic.dev/package-spec"
baseURI ==
    <<"h", "t", "t", "p", "s", ":", "/", "/", "s", "c", "h", "e", "m", "a",
      "s", ".", "e", "l", "a", "s", "t", "i", "c", ".", "d", "e", "v", "/",
      "p", "a", "c", "k", "a", "g", "e", "-", "s", "p", "e", "c">>

\* "https://json-schema.org/draft/2020-12/schema": the default of flag -d and
\* the literal in combinedManifestSchema
Draft202012 ==
    <<"h", "t", "t", "p", "s", ":", "/", "/", "j", "s", "o", "n", "-", "s",
      "c", "h", "e", "m", "a", ".", "o", "r", "g", "/", "d", "r", "a", "f",
      "t", "/", "2", "0", "2", "0", "-", "1", "2", "/", "s", "c", "h", "e",
      "m", "a">>

\* "http://json-schema.org/draft-07/schema#": another value for flag -d
Draft07 ==
    <<"h", "t", "t", "p", ":", "/", "/", "j", "s", "o", "n", "-", "s", "c",
      "h", "e", "m", "a", ".", "o", "r", "g", "/", "d", "r", "a", "f", "t",
      "-", "0", "7", "/", "s", "c", "h", "e", "m", "a", "#">>

Dialects == {Draft202012, Draft07}

(***************************************************************************)
(* Decoded YAML / JSON values (map[string]any, []any, scalars).            *)
(***************************************************************************)

JString(s) == [k |-> "string", s |-> s]

JBool(b) == [k |-> "bool", b |-> b]

JNull == [k |-> "null"]

JObject(m) == [k |-> "object", m |-> m]

JArray(e) == [k |-> "array", e |-> e]

EmptyMap == [key \in {} |-> JNull]

\* m with key set to val (added when absent)
MapPut(m, key, val) ==
    [x \in DOMAIN m \cup {key} |-> IF x = key THEN val ELSE m[x]]

(***************************************************************************)
(* SchemaPatcher.                                                          *)
(***************************************************************************)

\* schemaID: url.Parse(baseURI), path.Join(u.Path, version, relativePath)
schemaID(vers, relPath) == JoinPath(<<baseURI, vers, relPath>>)

encodeURIFragment(ref) ==
    IF ~Contains(ref, Hash) THEN ref
    ELSE LET parts == SplitN2(ref, Hash)
         IN  IF Len(parts) # 2 THEN ref
             ELSE IF parts[2] = <<>> THEN ref
             ELSE parts[1] \o Hash \o ReplaceAll(parts[2], Caret, PercentFiveE)

\* the case "$ref" of the key switch, for a string value
patchRef(refStr) == encodeURIFragment(ReplaceFirst(refStr, SpecYml, JsonSchemaJson))

\* delete(obj, key) in the key switch
patchDeletes(key, value, isRoot) ==
    \/ key = "$id" /\ ~isRoot
    \/ key = "additionalProperties" /\ value.k = "bool" /\ value.b

RECURSIVE patchSchemaInPlaceRecursive(_, _)
patchSchemaInPlaceRecursive(v, isRoot) ==
    IF v.k = "object" THEN
        LET obj == v.m
            kept == {key \in DOMAIN obj : ~patchDeletes(key, obj[key], isRoot)}
        IN  JObject([key \in kept |->
                IF key = "$id" THEN obj[key]
                ELSE IF key = "$ref" THEN
                    IF obj[key].k = "string" THEN JString(patchRef(obj[key].s))
                    ELSE obj[key]
                ELSE patchSchemaInPlaceRecursive(obj[key], FALSE)])
    ELSE IF v.k = "array" THEN
        JArray([i \in 1..Len(v.e) |-> patchSchemaInPlaceRecursive(v.e[i], FALSE)])
    ELSE v

patchSchemaInPlace(v) == patchSchemaInPlaceRecursive(v, TRUE)

\* patchSchema(version, relativePath, spec) on a map[string]any
patchSchema(vers, relPath, m) ==
    LET withSchema == MapPut(m, "$schema", JString(dialect))
        withID == MapPut(withSchema, "$id", JString(schemaID(vers, relPath)))
    IN  patchSchemaInPlace(JObject(withID)).m

(***************************************************************************)
(* Inputs of the patcher: raw spec bodies.                                 *)
(***************************************************************************)

\* Longest $ref, in segments
MaxSegs == 3

\* Deepest nesting of the raw spec bodies
MaxDepth == 2

\* patchSchema calls made on one document
MaxPatchCalls == 2

\* The pieces $ref strings are made of
Segments == {<<"a">>, SpecYml, Hash, Caret, PercentFiveE}

RECURSIVE Concats(_)
Concats(n) ==
    IF n = 0 THEN {<<>>}
    ELSE LET shorter == Concats(n - 1)
         IN  shorter \cup {s \o g : s \in shorter, g \in Segments}

RefStrings == Concats(MaxSegs)

Absent == [k |-> "absent"]

\* The object with the given values under the keys the patcher singles out;
\* a key whose value is Absent is left out
Leaf(id, ref, ap) ==
    LET all == ("$id" :> id) @@ ("$ref" :> ref) @@ ("additionalProperties" :> ap)
    IN  JObject([key \in {x \in DOMAIN all : all[x].k # "absent"} |-> all[key]])

Leaves ==
    {Leaf(id, ref, ap) :
        id \in {Absent, JString(<<"o", "l", "d">>)},
        ref \in {Absent, JNull} \cup {JString(s) : s \in RefStrings},
        ap \in {Absent, JBool(TRUE), JBool(FALSE)}}

\* The parent keys a nested schema can sit under
ParentKinds == {"properties", "$ref", "additionalProperties", "allOf"}

Wrap(kind, child) ==
    IF kind = "allOf" THEN JObject("allOf" :> JArray(<<JBool(TRUE), child>>))
    ELSE JObject(kind :> child)

RECURSIVE Nest(_, _)
Nest(ctx, leaf) ==
    IF Len(ctx) = 0 THEN leaf ELSE Wrap(Head(ctx), Nest(Tail(ctx), leaf))

Contexts(depth) == UNION {[1..n -> ParentKinds] : n \in 0..depth}

\* The raw spec bodies nested up to the given depth
RawSpecs(depth) == {Nest(ctx, leaf).m : ctx \in Contexts(depth), leaf \in Leaves}

PatchPaths == {ManifestJsonSchemaJson, <<"a", "/", "b">> \o JsonSchemaJson}

PatchVersions == {<<"1", ".", "2", ".", "0">>, <<"m", "a", "i", "n">>}

(***************************************************************************)
(* The patcher applied to every raw spec body, and applied again to its    *)
(* own output.                                                             *)
(***************************************************************************)

\* The generation run, not started and with nothing to do
RunIdle ==
    /\ gitRef = <<>>
    /\ tags = {}
    /\ pc = "idle"
    /\ gitRefs = <<>>
    /\ idx = 0
    /\ ver = <<>>
    /\ wt = [root |-> <<>>, files |-> <<>>]
    /\ head = [name |-> <<>>]
    /\ pending = <<>>
    /\ written = <<>>
    /\ dirFiles = <<>>
    /\ synthesized = FALSE
    /\ processed = <<>>
    /\ err = [msg |-> "", path |-> <<>>]

\* The bundler, not started and with nothing to do
BundleIdle ==
    /\ inDir = <<>>
    /\ outDir = <<>>
    /\ toolInPath = FALSE
    /\ corpus = <<>>
    /\ schemas = <<>>
    /\ bidx = 0
    /\ bpc = "idle"
    /\ invocations = <<>>
    /\ bundles = <<>>
    /\ osStderr = <<>>
    /\ bundleErr = [nil |-> TRUE, msg |-> <<>>]

PatchInit ==
    /\ RunIdle
    /\ BundleIdle
    /\ dialect \in Dialects
    /\ spec \in RawSpecs(MaxDepth)
    /\ rawSpec = spec
    /\ oncePatched = spec
    /\ patchCalls = 0
    /\ relativePath \in PatchPaths
    /\ version \in PatchVersions

Patch ==
    /\ patchCalls < MaxPatchCalls
    /\ spec' = patchSchema(version, relativePath, spec)
    /\ oncePatched' = IF patchCalls = 0 THEN spec' ELSE oncePatched
    /\ patchCalls' = patchCalls + 1
    /\ UNCHANGED <<dialect, rawSpec, relativePath, version, runVars, bundleVars>>

PatchNext == Patch

PatchSpec == PatchInit /\ [][PatchNext]_vars

(***************************************************************************)
(* Reading documents: every object and every string $ref, by location.     *)
(***************************************************************************)

\* One step of a location: into the value of a key, or into an array item
AtKey(key) == [key |-> key, idx |-> 0]

AtIndex(i) == [key |-> "", idx |-> i]

\* The locations (sequences of steps) of all nodes of v
RECURSIVE Locations(_)
Locations(v) ==
    {<<>>} \cup
    IF v.k = "object" THEN
        UNION {{<<AtKey(key)>> \o loc : loc \in Locations(v.m[key])} : key \in DOMAIN v.m}
    ELSE IF v.k = "array" THEN
        UNION {{<<AtIndex(i)>> \o loc : loc \in Locations(v.e[i])} : i \in 1..Len(v.e)}
    ELSE {}

RECURSIVE NodeAt(_, _)
NodeAt(v, loc) ==
    IF Len(loc) = 0 THEN v
    ELSE IF v.k = "object" THEN NodeAt(v.m[Head(loc).key], Tail(loc))
    ELSE NodeAt(v.e[Head(loc).idx], Tail(loc))

ObjectsOf(v) == {loc \in Locations(v) : NodeAt(v, loc).k = "object"}

HasKey(node, key) == node.k = "object" /\ key \in DOMAIN node.m

\* Locations of the objects of v that hold a string-valued $ref
RefHolders(v) ==
    {loc \in ObjectsOf(v) :
        /\ HasKey(NodeAt(v, loc), "$ref")
        /\ NodeAt(v, loc).m["$ref"].k = "string"}

RefAt(v, loc) == NodeAt(v, loc).m["$ref"].s

\* The part of a reference before the first "#", and the part after it
FilePart(ref) == SplitN2(ref, Hash)[1]

Fragment(ref) == IF Contains(ref, Hash) THEN SplitN2(ref, Hash)[2] ELSE <<>>

Patched == JObject(spec)

Raw == JObject(rawSpec)

\* The same reference before patching: patching moves no node
RawRefAt(loc) == RefAt(Raw, loc)

\* Number of occurrences of the character c in s
CountOf(s, c) == Cardinality({i \in 1..Len(s) : s[i] = c})

(***************************************************************************)
(* Claims about the patcher.                                               *)
(***************************************************************************)

\* C1: patching is idempotent: patching an already patched document (same
\* path, same version) gives the document that patching once gave.
C1_PatchIdempotent ==
    patchCalls >= 2 => spec = oncePatched

\* C6: after patching, no string $ref ends its file part (the part before
\* the first "#") with ".spec.yml"; a file part that ended in ".spec.yml"
\* is the same file part with that suffix replaced by ".jsonschema.json";
\* a file part without ".spec.yml" is unchanged.
C6_RefsFollowOutputConvention ==
    patchCalls = 1 =>
        \A loc \in RefHolders(Patched) :
            LET in == FilePart(RawRefAt(loc))
                out == FilePart(RefAt(Patched, loc))
            IN  /\ ~HasSuffix(out, SpecYml)
                /\ HasSuffix(in, SpecYml) =>
                       out = SubSeq(in, 1, Len(in) - Len(SpecYml)) \o JsonSchemaJson
                /\ ~Contains(in, SpecYml) => out = in

\* C7: for every string $ref, the patched fragment is the raw fragment with
\* each "^" replaced by "%5E" and nothing else changed; the part before the
\* first "#" keeps its carets; a $ref without "#" changes only by the suffix
\* rewrite.
C7_CaretEncodedInFragmentOnly ==
    patchCalls = 1 =>
        \A loc \in RefHolders(Patched) :
            LET in == RawRefAt(loc)
                out == RefAt(Patched, loc)
            IN  /\ Contains(in, Hash) = Contains(out, Hash)
                /\ Fragment(out) = ReplaceAll(Fragment(in), Caret, PercentFiveE)
                /\ CountOf(FilePart(out), "^") = CountOf(FilePart(in), "^")
                /\ ~Contains(in, Hash) =>
                       out \in {in, ReplaceFirst(in, SpecYml, JsonSchemaJson)}

\* C8: after patching, the root $id is the computed identity and no other
\* object of the document, at any depth and under any parent, has an $id.
C8_OnlyRootHasId ==
    patchCalls >= 1 =>
        /\ spec["$id"] = JString(schemaID(version, relativePath))
        /\ \A loc \in ObjectsOf(Patched) \ {<<>>} : ~HasKey(NodeAt(Patched, loc), "$id")

IsTrue(v) == v.k = "bool" /\ v.b

\* C9: after patching, no object (root included) has additionalProperties:
\* true, and an additionalProperties that was false or an object is kept.
C9_NoAdditionalPropertiesTrue ==
    patchCalls = 1 =>
        \A loc \in ObjectsOf(Patched) :
            LET node == NodeAt(Patched, loc)
                was == NodeAt(Raw, loc)
            IN  /\ HasKey(node, "additionalProperties") =>
                       ~IsTrue(node.m["additionalProperties"])
                /\ ( /\ HasKey(was, "additionalProperties")
                     /\ ~IsTrue(was.m["additionalProperties"]) ) =>
                       HasKey(node, "additionalProperties")

(***************************************************************************)
(* Decimal numbers and ordering of strings.                                *)
(***************************************************************************)

Digits == <<"0", "1", "2", "3", "4", "5", "6", "7", "8", "9">>

IsDigit(c) == \E i \in 1..Len(Digits) : Digits[i] = c

DigitValue(c) == (CHOOSE i \in 1..Len(Digits) : Digits[i] = c) - 1

RECURSIVE DigitsValue(_)
DigitsValue(s) ==
    IF Len(s) = 0 THEN 0
    ELSE DigitsValue(SubSeq(s, 1, Len(s) - 1)) * Len(Digits) + DigitValue(s[Len(s)])

\* strconv.ParseInt(s, 10, 64) of a string without sign; -1 stands for the error
ParseInt(s) ==
    IF s = <<>> \/ \E i \in 1..Len(s) : ~IsDigit(s[i]) THEN -1 ELSE DigitsValue(s)

\* fmt's %d of a natural number
RECURSIVE Itoa(_)
Itoa(n) ==
    IF n < Len(Digits) THEN <<Digits[n + 1]>>
    ELSE Itoa(n \div Len(Digits)) \o <<Digits[(n % Len(Digits)) + 1]>>

\* The characters of the model's strings, in byte order
ByteOrder ==
    <<"#", "%", "+", "-", ".", "/">> \o Digits \o <<"E", "M", "R", "^">> \o
    <<"a", "b", "c", "d", "e", "f", "g", "h", "i", "j", "k", "l", "m",
      "n", "o", "p", "q", "r", "s", "t", "u", "v", "w", "x", "y", "z">>

ByteOf(c) == CHOOSE i \in 1..Len(ByteOrder) : ByteOrder[i] = c

\* a < b for Go strings
RECURSIVE StringLess(_, _)
StringLess(a, b) ==
    IF Len(b) = 0 THEN FALSE
    ELSE IF Len(a) = 0 THEN TRUE
    ELSE IF a[1] # b[1] THEN ByteOf(a[1]) < ByteOf(b[1])
    ELSE StringLess(Tail(a), Tail(b))

\* slices.Sorted over a set of strings
RECURSIVE SortedStrings(_)
SortedStrings(S) ==
    IF S = {} THEN <<>>
    ELSE LET least == CHOOSE a \in S : \A b \in S \ {a} : StringLess(a, b)
         IN  <<least>> \o SortedStrings(S \ {least})

\* The elements of a sequence
Range(s) == {s[i] : i \in 1..Len(s)}

(***************************************************************************)
(* VersionSource: references, semantic versions, release tags.             *)
(***************************************************************************)

\* plumbing.Reference, by its name
Reference(name) == [name |-> name]

RefsPrefix == <<"r", "e", "f", "s", "/">>

RefsTagsPrefix == <<"r", "e", "f", "s", "/", "t", "a", "g", "s", "/">>

RefsHeadsPrefix == <<"r", "e", "f", "s", "/", "h", "e", "a", "d", "s", "/">>

RefsRemotesPrefix == <<"r", "e", "f", "s", "/", "r", "e", "m", "o", "t", "e", "s", "/">>

\* plumbing.ReferenceName.Short
Short(name) ==
    IF HasPrefix(name, RefsTagsPrefix) THEN TrimPrefix(name, RefsTagsPrefix)
    ELSE IF HasPrefix(name, RefsHeadsPrefix) THEN TrimPrefix(name, RefsHeadsPrefix)
    ELSE IF HasPrefix(name, RefsRemotesPrefix) THEN TrimPrefix(name, RefsRemotesPrefix)
    ELSE TrimPrefix(name, RefsPrefix)

\* semver.Version; valid = FALSE stands for the nil *semver.Version
Version(major, minor, patch, pre, meta) ==
    [valid |-> TRUE, major |-> major, minor |-> minor, patch |-> patch,
     pre |-> pre, meta |-> meta]

NilVersion ==
    [valid |-> FALSE, major |-> 0, minor |-> 0, patch |-> 0, pre |-> <<>>, meta |-> <<>>]

\* semver's splitOff: the input cut at the first delim, and what followed it
SplitOff(input, delim) ==
    LET parts == SplitN2(input, delim)
    IN  IF Len(parts) = 2 THEN [rest |-> parts[1], val |-> parts[2]]
        ELSE [rest |-> input, val |-> <<>>]

IdentifierChars ==
    Range(Digits) \cup {"-"} \cup
    {"a", "b", "c", "d", "e", "f", "g", "h", "i", "j", "k", "l", "m",
     "n", "o", "p", "q", "r", "s", "t", "u", "v", "w", "x", "y", "z"}

\* semver's validateIdentifier: empty, or dot-separated non-empty identifiers
ValidIdentifier(id) ==
    \/ id = <<>>
    \/ /\ \A i \in 1..Len(id) : id[i] \in IdentifierChars \cup {"."}
       /\ id[1] # "." /\ id[Len(id)] # "."
       /\ ~Contains(id, <<".", ".">>)

\* semver.NewVersion
NewVersion(s) ==
    LET m == SplitOff(s, <<"+">>)
        p == SplitOff(m.rest, <<"-">>)
        first == SplitN2(p.rest, <<".">>)
        dotParts == IF Len(first) = 2 THEN <<first[1]>> \o SplitN2(first[2], <<".">>)
                    ELSE first
    IN  IF Len(dotParts) # 3 THEN NilVersion
        ELSE IF ~ValidIdentifier(p.val) \/ ~ValidIdentifier(m.val) THEN NilVersion
        ELSE IF \E i \in 1..3 : ParseInt(dotParts[i]) < 0 THEN NilVersion
        ELSE Version(ParseInt(dotParts[1]), ParseInt(dotParts[2]),
                     ParseInt(dotParts[3]), p.val, m.val)

\* semver.Version.String
VersionString(v) ==
    Itoa(v.major) \o <<".">> \o Itoa(v.minor) \o <<".">> \o Itoa(v.patch)
        \o (IF v.pre # <<>> THEN <<"-">> \o v.pre ELSE <<>>)
        \o (IF v.meta # <<>> THEN <<"+">> \o v.meta ELSE <<>>)

tagToSemver(ref) ==
    LET tag == Short(ref.name)
    IN  IF ~HasPrefix(tag, <<"v">>) THEN NilVersion
        ELSE NewVersion(TrimPrefix(tag, <<"v">>))

\* Mutant of LessThan: the versions compared as strings
LessThanAsStrings(a, b) == StringLess(VersionString(a), VersionString(b))

\* semver.Version.LessThan for versions without pre-release (the only ones
\* GetReleaseTags sorts)
LessThan(a, b) ==
    \/ a.major < b.major
    \/ a.major = b.major /\ a.minor < b.minor
    \/ a.major = b.major /\ a.minor = b.minor /\ a.patch < b.patch

\* sort.Sort by LessThan: each element goes before the first one it is less than
RECURSIVE SortRefs(_)
SortRefs(refs) ==
    IF Len(refs) = 0 THEN <<>>
    ELSE LET rest == SortRefs(SubSeq(refs, 1, Len(refs) - 1))
             r == refs[Len(refs)]
             before == {i \in 1..Len(rest) : LessThan(tagToSemver(r), tagToSemver(rest[i]))}
             at == IF before = {} THEN Len(rest) + 1
                   ELSE CHOOSE i \in before : \A j \in before : i <= j
         IN  SubSeq(rest, 1, at - 1) \o <<r>> \o SubSeq(rest, at, Len(rest))

\* The loop body of GetReleaseTags: whether a tag goes into versionToRef
IsReleaseTag(ref) ==
    LET v == tagToSemver(ref)
    IN  v.valid /\ v.pre = <<>>

\* GetReleaseTags, with the tags iterated (and the map ranged over) in the
\* given order
GetReleaseTags(order) ==
    SortRefs(SelectSeq([i \in 1..Len(order) |-> Reference(RefsTagsPrefix \o order[i])],
                       IsReleaseTag))

\* Mutant of VersionLabel: the reference name, never the semantic version
VersionLabelLiteral(ref) == ref.name

\* writeSchemas, lines 88-91: the version label of a reference
VersionLabel(ref) ==
    LET v == tagToSemver(ref)
    IN  IF v.valid THEN VersionString(v) ELSE ref.name

(***************************************************************************)
(* Repository contents: tags and trees.                                    *)
(***************************************************************************)

\* Most tags of a repository
MaxTags == 4

\* A tag name written out from its parts
TagParts(v, nums, pre, meta) == [v |-> v, nums |-> nums, pre |-> pre, meta |-> meta]

RECURSIVE JoinDots(_)
JoinDots(nums) ==
    IF Len(nums) = 1 THEN Itoa(nums[1])
    ELSE Itoa(nums[1]) \o <<".">> \o JoinDots(Tail(nums))

Numbers(d) ==
    JoinDots(d.nums)
        \o (IF d.pre # <<>> THEN <<"-">> \o d.pre ELSE <<>>)
        \o (IF d.meta # <<>> THEN <<"+">> \o d.meta ELSE <<>>)

TagName(d) == (IF d.v THEN <<"v">> ELSE <<>>) \o Numbers(d)

Beta1 == <<"b", "e", "t", "a", "1">>

TagUniverse ==
    {TagParts(TRUE, <<1, 2, 0>>, <<>>, <<>>),
     TagParts(TRUE, <<1, 10, 0>>, <<>>, <<>>),
     TagParts(TRUE, <<2, 0, 0>>, Beta1, <<>>),
     TagParts(TRUE, <<1, 3, 0>>, <<>>, <<>>),
     TagParts(TRUE, <<1, 3, 0>>, <<>>, <<"b">>),
     TagParts(FALSE, <<1, 4, 0>>, <<>>, <<>>),
     TagParts(TRUE, <<1, 2>>, <<>>, <<>>)}

TagSets == {S \in SUBSET {TagName(d) : d \in TagUniverse} : Cardinality(S) <= MaxTags}

Main == <<"m", "a", "i", "n">>

\* Values of flag -git-ref
ExplicitRefUniverse ==
    {TagParts(TRUE, <<3, 4, 1>>, <<>>, <<>>), TagParts(TRUE, <<2, 0, 0>>, Beta1, <<>>)}

ExplicitRefs ==
    {TagName(d) : d \in ExplicitRefUniverse}
        \cup {RefsTagsPrefix \o TagName(d) : d \in ExplicitRefUniverse}
        \cup {Main}

\* All orders in which a set can be iterated
Orders(S) ==
    {o \in [1..Cardinality(S) -> S] : \A i, j \in 1..Cardinality(S) : i # j => o[i] # o[j]}

\* Directory and file names of the package-spec repository
SpecDir == <<"s", "p", "e", "c">>

VersionsOneDir == <<"v", "e", "r", "s", "i", "o", "n", "s", "/", "1">>

DocsDir == <<"d", "o", "c", "s">>

Content == <<"c", "o", "n", "t", "e", "n", "t">>

Input == <<"i", "n", "p", "u", "t">>

Integration == <<"i", "n", "t", "e", "g", "r", "a", "t", "i", "o", "n">>

ManifestSpecYml == <<"m", "a", "n", "i", "f", "e", "s", "t">> \o SpecYml

ReadmeMd == <<"R", "E", "A", "D", "M", "E", ".", "m", "d">>

\* The files a spec directory can hold, in the order util.Walk visits them
\* (each directory's entries sorted by name)
WalkOrder ==
    <<ReadmeMd,
      JoinPath(<<Content, ManifestSpecYml>>),
      JoinPath(<<Input, ManifestSpecYml>>),
      JoinPath(<<Integration, ManifestSpecYml>>),
      ManifestSpecYml,
      JoinPath(<<<<"x">>, Input, ManifestSpecYml>>)>>

\* A working tree: its one top-level directory and the files below it
Tree(root, present) ==
    [root |-> root,
     files |-> SelectSeq([i \in 1..Len(WalkOrder) |-> JoinPath(<<root, WalkOrder[i]>>)],
                         LAMBDA f : TrimPrefix(f, root \o <<"/">>) \in present)]

\* The trees a checkout can leave: every set of spec files under spec/, the
\* legacy layout under versions/1 with and without a root manifest, and a
\* tree without a spec directory
Trees ==
    {Tree(SpecDir, present \cup {ReadmeMd}) :
        present \in SUBSET (Range(WalkOrder) \ {ReadmeMd})}
    \cup {Tree(VersionsOneDir, {ReadmeMd, ManifestSpecYml}),
          Tree(VersionsOneDir, {ReadmeMd, JoinPath(<<Input, ManifestSpecYml>>),
                                JoinPath(<<Integration, ManifestSpecYml>>)})}
    \cup {Tree(DocsDir, {ReadmeMd})}

\* fs.Stat(path) finds something
Exists(tree, path) == tree.root = path

\* getSpecPath; the empty path stands for the error "no spec found"
getSpecPath(tree) ==
    IF Exists(tree, SpecDir) THEN SpecDir
    ELSE IF Exists(tree, VersionsOneDir) THEN VersionsOneDir
    ELSE <<>>

\* filepath.Base
RECURSIVE Base(_)
Base(path) ==
    IF Contains(path, <<"/">>) THEN Base(SplitN2(path, <<"/">>)[2]) ELSE path

\* What a checked-out .spec.yml file can decode to: the raw spec body of a
\* well-formed file, and the malformed shapes
SpecBody(path) ==
    ("title" :> JString(path))
        @@ ("$schema" :> JString(Draft07))
        @@ ("additionalProperties" :> JBool(TRUE))

Undecodable == [k |-> "undecodable"]

FileContents(path) ==
    {Undecodable,
     JObject("format_version" :> JString(<<"1">>)),
     JObject("spec" :> JString(path)),
     JObject("spec" :> JObject(SpecBody(path)))}

NoError == [msg |-> "", path |-> <<>>]

Error(msg, path) == [msg |-> msg, path |-> path]

\* convertSpecYAMLToJSONSchema wrapped by writeSchema's error message: the
\* error, or the document to write
convertSpecYAMLToJSONSchema(path, content, vers) ==
    IF content.k = "undecodable" THEN
        [err |-> Error("failed to decode YAML", path), doc |-> EmptyMap]
    ELSE IF "spec" \notin DOMAIN content.m THEN
        [err |-> Error("spec key not found in YAML", path), doc |-> EmptyMap]
    ELSE IF content.m["spec"].k # "object" THEN
        [err |-> Error("spec is not an object", path), doc |-> EmptyMap]
    ELSE [err |-> NoError, doc |-> patchSchema(vers, path, content.m["spec"].m)]

(***************************************************************************)
(* ManifestSynthesizer.                                                    *)
(***************************************************************************)

\* The literal map at the head of combinedManifestSchema
AllManifestTypes ==
    [typ \in {Content, Input, Integration} |-> JoinPath(<<typ, ManifestJsonSchemaJson>>)]

\* Mutant of manifestTypes: the absent types are not deleted
manifestTypesUnfiltered(files) == DOMAIN AllManifestTypes

\* maps.DeleteFunc: the types some written file ends with the path of
manifestTypes(files) ==
    {typ \in DOMAIN AllManifestTypes :
        \E i \in 1..Len(files) : HasSuffix(files[i], AllManifestTypes[typ])}

DashManifest == <<"-", "m", "a", "n", "i", "f", "e", "s", "t">>

definitionName(manifestType) == manifestType \o DashManifest

\* Enum: []interface{}{slices.Sorted(maps.Keys(manifestTypes))}
manifestEnum(types) ==
    LET sorted == SortedStrings(types)
    IN  JArray(<<JArray([i \in 1..Len(sorted) |-> JString(sorted[i])])>>)

\* One element of s.AllOf
manifestBranch(manifestType) ==
    JObject(("if" :> JObject("properties" :>
                        JObject("type" :> JObject("const" :> JString(manifestType)))))
            @@ ("then" :> JObject("$ref" :>
                        JString(<<"#", "/", "$", "d", "e", "f", "s", "/">> \o definitionName(manifestType)))))

\* The loop over slices.Sorted(maps.Keys(manifestTypes)) filling s.AllOf
manifestAllOf(types) ==
    LET sorted == SortedStrings(types)
    IN  JArray([i \in 1..Len(sorted) |-> manifestBranch(sorted[i])])

\* The same loop filling s.Defs, a map keyed by definition name
manifestDefs(types) ==
    JObject([name \in {definitionName(typ) : typ \in types} |->
        LET typ == CHOOSE x \in types : definitionName(x) = name
        IN  JObject("$ref" :> JString(<<".", "/">> \o AllManifestTypes[typ]))])

\* combinedManifestSchema: the error, or the marshalled jsonschema.Schema
combinedManifestSchema(files, vers) ==
    LET types == manifestTypes(files)
    IN  IF types = {} THEN
            [err |-> Error("no manifest types found", <<>>), doc |-> EmptyMap]
        ELSE [err |-> NoError,
              doc |-> ("$schema" :> JString(Draft202012))
                  @@ ("$id" :> JString(schemaID(vers, ManifestJsonSchemaJson)))
                  @@ ("title" :> JString(<<"P", "a", "c", "k", "a", "g", "e", " ", "M", "a", "n", "i", "f", "e", "s", "t">>))
                  @@ ("description" :> JString(<<"S", "c", "h", "e", "m", "a", " ", "f", "o", "r", " ", "p", "a", "c", "k", "a", "g", "e", " ", "m", "a", "n", "i", "f", "e", "s", "t", "s", ".">>))
                  @@ ("type" :> JString(<<"o", "b", "j", "e", "c", "t">>))
                  @@ ("required" :> JArray(<<JString(<<"t", "y", "p", "e">>)>>))
                  @@ ("properties" :> JObject("type" :>
                          JObject(("type" :> JString(<<"s", "t", "r", "i", "n", "g">>))
                                  @@ ("enum" :> manifestEnum(types)))))
                  @@ ("$defs" :> manifestDefs(types))
                  @@ ("allOf" :> manifestAllOf(types))]

(***************************************************************************)
(* The generation run: run() and writeSchemas().                           *)
(***************************************************************************)

\* The patcher at rest: no document in work
PatchIdle ==
    /\ spec = EmptyMap
    /\ rawSpec = EmptyMap
    /\ oncePatched = EmptyMap
    /\ patchCalls = 0
    /\ relativePath = <<>>
    /\ version = <<>>

Init ==
    /\ BundleIdle
    /\ dialect \in Dialects
    /\ spec = EmptyMap
    /\ rawSpec = EmptyMap
    /\ oncePatched = EmptyMap
    /\ patchCalls = 0
    /\ relativePath = <<>>
    /\ version = <<>>
    /\ \/ gitRef = <<>> /\ tags \in TagSets
       \/ gitRef \in ExplicitRefs /\ tags = {}
    /\ pc = "start"
    /\ gitRefs = <<>>
    /\ idx = 0
    /\ ver = <<>>
    /\ wt = [root |-> <<>>, files |-> <<>>]
    /\ head = [name |-> <<>>]
    /\ pending = <<>>
    /\ written = <<>>
    /\ dirFiles = <<>>
    /\ synthesized = FALSE
    /\ processed = <<>>
    /\ err = NoError

\* return err
Fail(e) ==
    /\ err' = e
    /\ pc' = "failed"

\* run, lines 66-71: the one reference of flag -git-ref, under its literal name
ResolveReference ==
    /\ pc = "start"
    /\ gitRef # <<>>
    /\ gitRefs' = <<Reference(gitRef)>>
    /\ idx' = 1
    /\ pc' = "loop"
    /\ UNCHANGED <<dialect, patchVars, bundleVars, gitRef, tags, ver, wt, head, pending, written,
                   dirFiles, synthesized, processed, err>>

\* run, lines 72-77: all release tags
DiscoverTags ==
    /\ pc = "start"
    /\ gitRef = <<>>
    /\ \E order \in Orders(tags) : gitRefs' = GetReleaseTags(order)
    /\ idx' = 1
    /\ pc' = "loop"
    /\ UNCHANGED <<dialect, patchVars, bundleVars, gitRef, tags, ver, wt, head, pending, written,
                   dirFiles, synthesized, processed, err>>

\* NewGitRepository, ResolveReference or GetReleaseTags returns an error
StartFails ==
    /\ pc = "start"
    /\ \E msg \in {"failed to open/clone repository",
                   IF gitRef # <<>> THEN "failed to resolve revision"
                   ELSE "failed to get tags"} :
           Fail(Error(msg, <<>>))
    /\ UNCHANGED <<dialect, patchVars, bundleVars, gitRef, tags, gitRefs, idx, ver, wt, head, pending,
                   written, dirFiles, synthesized, processed>>

\* Mutant of CheckoutTarget: every checkout takes the first reference
CheckoutTargetFirst(i) == gitRefs[1]

\* Line 80 and 94: the reference writeSchemas checks out in round i of the loop
CheckoutTarget(i) == gitRefs[i]

\* writeSchemas, lines 88-96: label the version and check its reference out.
\* dirFiles are the files this run has put under dir, and dir is a new one.
Checkout ==
    /\ pc = "loop"
    /\ idx <= Len(gitRefs)
    /\ ver' = VersionLabel(gitRefs[idx])
    /\ \E tree \in Trees : wt' = tree
    /\ head' = CheckoutTarget(idx)
    /\ written' = <<>>
    /\ pending' = <<>>
    /\ dirFiles' = <<>>
    /\ synthesized' = FALSE
    /\ pc' = "checkedout"
    /\ UNCHANGED <<dialect, patchVars, bundleVars, gitRef, tags, gitRefs, idx, processed, err>>

\* git.Checkout returns an error; the working tree is left as it was
CheckoutFails ==
    /\ pc = "loop"
    /\ idx <= Len(gitRefs)
    /\ ver' = VersionLabel(gitRefs[idx])
    /\ Fail(Error("checkout failed", <<>>))
    /\ UNCHANGED <<dialect, patchVars, bundleVars, gitRef, tags, gitRefs, idx, wt, head, pending,
                   written, dirFiles, synthesized, processed>>

\* writeSchemas, lines 98-113: find the spec directory, empty dir, start the walk
FindSpecPath ==
    /\ pc = "checkedout"
    /\ IF getSpecPath(wt) = <<>>
       THEN /\ Fail(Error("no spec found", <<>>))
            /\ UNCHANGED pending
       ELSE /\ pending' = wt.files
            /\ pc' = "walk"
            /\ UNCHANGED err
    /\ UNCHANGED <<dialect, patchVars, bundleVars, gitRef, tags, gitRefs, idx, ver, wt, head, written,
                   dirFiles, synthesized, processed>>

\* os.RemoveAll(dir) returns an error
RemoveAllFails ==
    /\ pc = "checkedout"
    /\ getSpecPath(wt) # <<>>
    /\ Fail(Error("remove failed", <<>>))
    /\ UNCHANGED <<dialect, patchVars, bundleVars, gitRef, tags, gitRefs, idx, ver, wt, head, pending,
                   written, dirFiles, synthesized, processed>>

\* The walk callback, lines 117-120: a file that is not a .spec.yml file
WalkOther ==
    /\ pc = "walk"
    /\ pending # <<>>
    /\ ~HasSuffix(Base(Head(pending)), SpecYml)
    /\ pending' = Tail(pending)
    /\ UNCHANGED <<dialect, patchVars, bundleVars, gitRef, tags, pc, gitRefs, idx, ver, wt, head, written,
                   dirFiles, synthesized, processed, err>>

\* Line 133-134: the path of the schema below dir
relPathOf(path, repoPath) ==
    ReplaceFirst(TrimPrefix(path, repoPath \o <<"/">>), SpecYml, JsonSchemaJson)

\* The walk callback, lines 122-137, and writeSchema: convert one .spec.yml
\* file and write it
WalkSpecFile ==
    /\ pc = "walk"
    /\ pending # <<>>
    /\ HasSuffix(Base(Head(pending)), SpecYml)
    /\ LET relPath == relPathOf(Head(pending), getSpecPath(wt))
       IN  /\ written' = Append(written, relPath)
           /\ \E content \in FileContents(Head(pending)) :
                  LET res == convertSpecYAMLToJSONSchema(relPath, content, ver)
                  IN  IF res.err # NoError
                      THEN /\ Fail(res.err)
                           /\ UNCHANGED <<pending, dirFiles>>
                      ELSE /\ dirFiles' = MapPut(dirFiles, relPath, res.doc)
                           /\ pending' = Tail(pending)
                           /\ UNCHANGED <<pc, err>>
    /\ UNCHANGED <<dialect, patchVars, bundleVars, gitRef, tags, gitRefs, idx, ver, wt, head,
                   synthesized, processed>>

\* wt.Filesystem.Open returns an error
OpenFails ==
    /\ pc = "walk"
    /\ pending # <<>>
    /\ HasSuffix(Base(Head(pending)), SpecYml)
    /\ Fail(Error("open failed", Head(pending)))
    /\ UNCHANGED <<dialect, patchVars, bundleVars, gitRef, tags, gitRefs, idx, ver, wt, head, pending,
                   written, dirFiles, synthesized, processed>>

\* Flag -o of the generation run, when given
schemaOutDir == <<"o", "u", "t">>

\* Line 92: dir, the directory of the version's schemas
dirOf(vers) == JoinPath(<<schemaOutDir, vers, <<"j", "s", "o", "n", "s", "c", "h", "e", "m", "a">>>>)

\* filepath.Dir of a path with a directory part
Dir(path) == SubSeq(path, 1, Len(path) - Len(Base(path)) - 1)

\* writeSchema, line 162: the file of a schema
destFileOf(vers, relPath) == JoinPath(<<dirOf(vers), relPath>>)

\* os.MkdirAll or os.WriteFile in writeSchema returns an error: a *PathError
\* naming the directory, or the file; writeSchema returns it as it is
WriteFails ==
    /\ pc = "walk"
    /\ pending # <<>>
    /\ HasSuffix(Base(Head(pending)), SpecYml)
    /\ LET relPath == relPathOf(Head(pending), getSpecPath(wt))
       IN  /\ written' = Append(written, relPath)
           /\ \/ Fail(Error("mkdir failed", Dir(destFileOf(ver, relPath))))
              \/ Fail(Error("write failed", destFileOf(ver, relPath)))
    /\ UNCHANGED <<dialect, patchVars, bundleVars, gitRef, tags, gitRefs, idx, ver, wt, head, pending,
                   dirFiles, synthesized, processed>>

\* util.Walk hands the callback an error of lstat or readdir, lines 114-116
WalkFails ==
    /\ pc = "walk"
    /\ pending # <<>>
    /\ Fail(Error("walk failed", Head(pending)))
    /\ UNCHANGED <<dialect, patchVars, bundleVars, gitRef, tags, gitRefs, idx, ver, wt, head, pending,
                   written, dirFiles, synthesized, processed>>

\* git.Worktree returns an error, lines 98-101
WorktreeFails ==
    /\ pc = "checkedout"
    /\ Fail(Error("failed to get worktree", <<>>))
    /\ UNCHANGED <<dialect, patchVars, bundleVars, gitRef, tags, gitRefs, idx, ver, wt, head, pending,
                   written, dirFiles, synthesized, processed>>

\* Mutant of needsManifest: the root manifest is synthesized in any case
needsManifestAlways(files) == TRUE

\* Line 144: whether writeSchemas goes on to synthesize the root manifest
needsManifest(files) == ManifestJsonSchemaJson \notin Range(files)

\* return nil from writeSchemas; the loop of run moves on
VersionDone ==
    /\ processed' = Append(processed, ver)
    /\ idx' = idx + 1
    /\ pc' = "loop"

\* Lines 143-151 with a root manifest among the written files
KeepManifest ==
    /\ pc = "walk"
    /\ pending = <<>>
    /\ ~needsManifest(written)
    /\ VersionDone
    /\ UNCHANGED <<dialect, patchVars, bundleVars, gitRef, tags, gitRefs, ver, wt, head, pending, written,
                   dirFiles, synthesized, err>>

\* Lines 144-149 without one: synthesize the root manifest and write it
SynthesizeManifest ==
    /\ pc = "walk"
    /\ pending = <<>>
    /\ needsManifest(written)
    /\ synthesized' = TRUE
    /\ LET res == combinedManifestSchema(written, ver)
       IN  IF res.err # NoError
           THEN /\ Fail(res.err)
                /\ UNCHANGED <<dirFiles, processed, idx>>
           ELSE /\ dirFiles' = MapPut(dirFiles, ManifestJsonSchemaJson, res.doc)
                /\ VersionDone
                /\ UNCHANGED err
    /\ UNCHANGED <<dialect, patchVars, bundleVars, gitRef, tags, gitRefs, ver, wt, head, pending, written>>

\* os.WriteFile of the synthesized manifest returns an error
ManifestWriteFails ==
    /\ pc = "walk"
    /\ pending = <<>>
    /\ needsManifest(written)
    /\ combinedManifestSchema(written, ver).err = NoError
    /\ synthesized' = TRUE
    /\ Fail(Error("write failed", destFileOf(ver, ManifestJsonSchemaJson)))
    /\ UNCHANGED <<dialect, patchVars, bundleVars, gitRef, tags, gitRefs, idx, ver, wt, head, pending,
                   written, dirFiles, processed>>

\* run, line 84: every reference is done
Finish ==
    /\ pc = "loop"
    /\ idx > Len(gitRefs)
    /\ pc' = "done"
    /\ UNCHANGED <<dialect, patchVars, bundleVars, gitRef, tags, gitRefs, idx, ver, wt, head, pending,
                   written, dirFiles, synthesized, processed, err>>

Next ==
    \/ ResolveReference
    \/ DiscoverTags
    \/ StartFails
    \/ Checkout
    \/ CheckoutFails
    \/ FindSpecPath
    \/ RemoveAllFails
    \/ WalkOther
    \/ WalkSpecFile
    \/ OpenFails
    \/ WriteFails
    \/ WalkFails
    \/ WorktreeFails
    \/ KeepManifest
    \/ SynthesizeManifest
    \/ ManifestWriteFails
    \/ Finish

Spec == Init /\ [][Next]_vars

(***************************************************************************)
(* Claims about the manifest synthesizer.                                  *)
(***************************************************************************)

\* The manifest types present among the written paths: those some written
\* path ends with "<type>/manifest.jsonschema.json" of
PresentTypes ==
    {typ \in {Content, Input, Integration} :
        \E w \in Range(written) :
            HasSuffix(w, typ \o <<"/">> \o ManifestJsonSchemaJson)}

\* The present types in lexicographic order
PresentTypesSorted ==
    SelectSeq(<<Content, Input, Integration>>, LAMBDA typ : typ \in PresentTypes)

\* writeSchemas has synthesized the root manifest of ver and written it
ManifestSynthesized ==
    /\ synthesized
    /\ pc \in {"loop", "done"}
    /\ ManifestJsonSchemaJson \in DOMAIN dirFiles

SynthesizedManifest == dirFiles[ManifestJsonSchemaJson]

\* C2: the synthesized manifest's properties.type.enum is the sorted list of
\* the present type names, one string member per type.
C2_EnumIsSortedPresentTypes ==
    ManifestSynthesized =>
        LET enum == SynthesizedManifest["properties"].m["type"].m["enum"].e
        IN  /\ Len(enum) = Len(PresentTypesSorted)
            /\ \A i \in 1..Len(enum) :
                   enum[i].k = "string" /\ enum[i].s = PresentTypesSorted[i]

\* C3: allOf has one branch per present type and none for absent ones, in
\* sorted type order; the branch of T is "if type is T then
\* #/$defs/T-manifest", and $defs holds exactly the entries T-manifest, each a
\* pointer to ./T/manifest.jsonschema.json.
C3_OneBranchPerPresentType ==
    ManifestSynthesized =>
        LET allOf == SynthesizedManifest["allOf"].e
            defs == SynthesizedManifest["$defs"].m
        IN  /\ Len(allOf) = Len(PresentTypesSorted)
            /\ \A i \in 1..Len(allOf) :
                   LET typ == PresentTypesSorted[i]
                   IN  /\ DOMAIN allOf[i].m = {"if", "then"}
                       /\ allOf[i].m["if"] =
                              JObject("properties" :> JObject("type" :>
                                  JObject("const" :> JString(typ))))
                       /\ allOf[i].m["then"] =
                              JObject("$ref" :> JString(<<"#", "/", "$", "d", "e", "f", "s", "/">>
                                  \o typ \o DashManifest))
            /\ DOMAIN defs = {typ \o DashManifest : typ \in PresentTypes}
            /\ \A typ \in PresentTypes :
                   defs[typ \o DashManifest] =
                       JObject("$ref" :> JString(<<".", "/">> \o typ \o <<"/">>
                           \o ManifestJsonSchemaJson))

\* C3 witness: a manifest synthesized for input and integration only
C3_Witness ==
    /\ ManifestSynthesized
    /\ pc = "done"
    /\ PresentTypes = {Input, Integration}

(***************************************************************************)
(* Claims about version discovery and the version label.                   *)
(***************************************************************************)

\* The tags named v<major>.<minor>.<patch> without pre-release, by their parts
ReleaseParts == {d \in TagUniverse : d.v /\ Len(d.nums) = 3 /\ d.pre = <<>>}

PartsOfRef(ref) == CHOOSE d \in TagUniverse : RefsTagsPrefix \o TagName(d) = ref.name

\* a <= b, number by number
NumbersLeq(a, b) ==
    \/ a[1] < b[1]
    \/ a[1] = b[1] /\ a[2] < b[2]
    \/ a[1] = b[1] /\ a[2] = b[2] /\ a[3] <= b[3]

RefNames == [i \in 1..Len(gitRefs) |-> gitRefs[i].name]

ExampleTags ==
    {TagName(TagParts(TRUE, <<1, 2, 0>>, <<>>, <<>>)),
     TagName(TagParts(TRUE, <<1, 10, 0>>, <<>>, <<>>)),
     TagName(TagParts(TRUE, <<2, 0, 0>>, Beta1, <<>>)),
     TagName(TagParts(TRUE, <<1, 3, 0>>, <<>>, <<>>))}

ExampleOrder ==
    <<RefsTagsPrefix \o TagName(TagParts(TRUE, <<1, 2, 0>>, <<>>, <<>>)),
      RefsTagsPrefix \o TagName(TagParts(TRUE, <<1, 3, 0>>, <<>>, <<>>)),
      RefsTagsPrefix \o TagName(TagParts(TRUE, <<1, 10, 0>>, <<>>, <<>>))>>

\* C4: without -git-ref, discovery returns exactly the tags v<semver> with no
\* pre-release, each once, ascending by numeric (major, minor, patch); the
\* example tags give [v1.2.0, v1.3.0, v1.10.0]; the run processes the
\* versions in that order.
C4_ReleaseTagsSortedNumerically ==
    (gitRef = <<>> /\ idx >= 1) =>
        /\ Range(RefNames) =
               {RefsTagsPrefix \o TagName(d) : d \in {x \in ReleaseParts : TagName(x) \in tags}}
        /\ \A i, j \in 1..Len(gitRefs) :
               /\ i # j => gitRefs[i] # gitRefs[j]
               /\ i < j => NumbersLeq(PartsOfRef(gitRefs[i]).nums, PartsOfRef(gitRefs[j]).nums)
        /\ tags = ExampleTags => RefNames = ExampleOrder
        /\ Len(processed) <= Len(gitRefs)
        /\ \A i \in 1..Len(processed) : processed[i] = Numbers(PartsOfRef(gitRefs[i]))

\* C4 witness: the example tags, all three releases processed
C4_Witness ==
    /\ gitRef = <<>>
    /\ tags = ExampleTags
    /\ pc = "done"
    /\ Len(processed) = 3

\* The label of an explicit reference: the version without the "v" when the
\* short name of the reference is v<semver>, the reference itself otherwise
ExpectedLabel(ref) ==
    IF \E d \in ExplicitRefUniverse : ref \in {TagName(d), RefsTagsPrefix \o TagName(d)}
    THEN Numbers(CHOOSE d \in ExplicitRefUniverse :
                     ref \in {TagName(d), RefsTagsPrefix \o TagName(d)})
    ELSE ref

\* Every file under dir has the identity base URI / label / its path
IdsUseLabel(label) ==
    \A path \in DOMAIN dirFiles :
        dirFiles[path]["$id"] = JString(baseURI \o <<"/">> \o label \o <<"/">> \o path)

\* C5 as stated: with -git-ref the run processes exactly one version and its
\* label, in the output directory and in every $id, is the literal reference.
C5_LabelIsLiteralReference ==
    (gitRef # <<>> /\ idx >= 1) =>
        /\ Len(gitRefs) = 1
        /\ ver # <<>> => ver = gitRef
        /\ IdsUseLabel(gitRef)
        /\ pc = "done" => processed = <<gitRef>>

\* C5 as amended: with -git-ref the run processes exactly one version; its
\* label is the literal reference, except that a reference whose short name
\* is v<semver> is labelled by the semantic version without the "v".
C5_LabelOfExplicitReference ==
    (gitRef # <<>> /\ idx >= 1) =>
        /\ Len(gitRefs) = 1
        /\ gitRefs[1].name = gitRef
        /\ ver # <<>> => ver = ExpectedLabel(gitRef)
        /\ IdsUseLabel(ExpectedLabel(gitRef))
        /\ pc = "done" => processed = <<ExpectedLabel(gitRef)>>

\* C5 witness: -git-ref v3.4.1 processed, with files written
C5_Witness ==
    /\ gitRef = TagName(TagParts(TRUE, <<3, 4, 1>>, <<>>, <<>>))
    /\ pc = "done"
    /\ processed = <<<<"3", ".", "4", ".", "1">>>>
    /\ ManifestJsonSchemaJson \in DOMAIN dirFiles

(***************************************************************************)
(* Claims about writeSchemas.                                              *)
(***************************************************************************)

\* writeSchemas has returned nil for ver and the next version is not begun
VersionWritten == pc \in {"loop", "done"} /\ processed # <<>>

\* The root manifest under dir is the patched document of the tree's own
\* manifest.spec.yml
HandAuthoredManifest ==
    /\ ManifestJsonSchemaJson \in DOMAIN dirFiles
    /\ "allOf" \notin DOMAIN dirFiles[ManifestJsonSchemaJson]
    /\ dirFiles[ManifestJsonSchemaJson]["title"] =
           JString(JoinPath(<<wt.root, ManifestSpecYml>>))

\* C10: synthesis runs for a version iff no collected document was written at
\* manifest.jsonschema.json: a corpus's own root manifest is the file at that
\* path once the version is processed and is never replaced by a synthesized
\* one; without one, a synthesized manifest is written there.
C10_SynthesisIffNoRootManifest ==
    /\ synthesized => ManifestJsonSchemaJson \notin Range(written)
    /\ (ManifestJsonSchemaJson \in Range(written)
            /\ ManifestJsonSchemaJson \in DOMAIN dirFiles) => HandAuthoredManifest
    /\ VersionWritten =>
           IF ManifestJsonSchemaJson \in Range(written)
           THEN ~synthesized /\ HandAuthoredManifest
           ELSE /\ synthesized
                /\ ManifestJsonSchemaJson \in DOMAIN dirFiles
                /\ dirFiles[ManifestJsonSchemaJson]["title"] =
                       JString(<<"P", "a", "c", "k", "a", "g", "e", " ", "M", "a", "n", "i", "f", "e", "s", "t">>)

\* C10 witness: a version with its own root manifest, processed
C10_Witness ==
    /\ pc = "done"
    /\ ManifestJsonSchemaJson \in Range(written)
    /\ HandAuthoredManifest

(***************************************************************************)
(* The bundler (.generate/bundle): run(), bundleSchema(), findFiles() and  *)
(* jsonschemaExec().  The jsonschema tool is outside the program: each of  *)
(* its runs either exits with a non-zero status and a text on stderr, or   *)
(* exits with 0 and a document on stdout.                                  *)
(***************************************************************************)

\* strings.Join
RECURSIVE Join(_, _)
Join(elems, sep) ==
    IF elems = <<>> THEN <<>>
    ELSE IF Len(elems) = 1 THEN elems[1]
    ELSE elems[1] \o sep \o Join(Tail(elems), sep)

\* The %q verb on a path without characters to escape
Quote(s) == <<"\"">> \o s \o <<"\"">>

\* An error value: nil, or an error with its message
NilError == [nil |-> TRUE, msg |-> <<>>]

NewError(msg) == [nil |-> FALSE, msg |-> msg]

\* Values of the flags -i and -o when given
InDirGiven == <<"i", "n">>

OutDirGiven == <<"o", "u", "t">>

\* The files a multi-file corpus below inDir can hold, in the order
\* filepath.Walk visits them
CorpusOrder ==
    <<JoinPath(<<InDirGiven, ReadmeMd>>),
      JoinPath(<<InDirGiven, Input, ManifestJsonSchemaJson>>),
      JoinPath(<<InDirGiven, Integration, ManifestJsonSchemaJson>>),
      JoinPath(<<InDirGiven, ManifestJsonSchemaJson>>)>>

Corpora ==
    {SelectSeq(CorpusOrder, LAMBDA f : f \in present) :
        present \in SUBSET Range(CorpusOrder)}

\* findFiles with the predicate of run: the paths ending in .jsonschema.json
findFiles(files) == SelectSeq(files, LAMBDA path : HasSuffix(path, JsonSchemaJson))

\* trimFilePrefix
trimFilePrefix(path, prefix) == TrimPrefix(path, prefix \o <<"/">>)

\* bundleSchema: the arguments of the tool
bundleArgs(schemaPath, in) ==
    <<<<"b", "u", "n", "d", "l", "e">>, schemaPath, <<"-", "-", "r", "e", "s", "o", "l", "v", "e">>, in, <<"-", "-", "w", "i", "t", "h", "o", "u", "t", "-", "i", "d">>>>

\* bundleSchema: the file of the bundle
outFileOf(schemaPath, in, out) == JoinPath(<<out, trimFilePrefix(schemaPath, in)>>)

\* What the tool can print on stdout when it exits with 0: a document whose
\* references all point into itself, one without references, and documents
\* that still hold a reference to another file, at the root or in $defs
ToolDocuments ==
    {("$ref" :> JString(<<"#", "/", "$", "d", "e", "f", "s", "/", "x">>))
        @@ ("$defs" :> JObject("x" :> JObject("type" :> JString(<<"o", "b", "j", "e", "c", "t">>)))),
     ("type" :> JString(<<"o", "b", "j", "e", "c", "t">>)),
     ("$ref" :> JString(<<".", "/", "i", "n", "p", "u", "t", "/", "m", "a", "n", "i", "f", "e", "s", "t", ".", "j", "s", "o", "n", "s", "c", "h", "e", "m", "a", ".", "j", "s", "o", "n">>)),
     ("$defs" :> JObject("x" :> JObject("$ref" :> JString(<<"a", ".", "j", "s", "o", "n", "s", "c", "h", "e", "m", "a", ".", "j", "s", "o", "n", "#", "/", "b">>))))}

\* What the tool can print on stderr when it fails
ToolDiagnostics ==
    {<<"e", "r", "r", "o", "r", ":", " ", "c", "o", "u", "l", "d", " ", "n", "o", "t", " ", "r", "e", "s", "o", "l", "v", "e", " ", "r", "e", "f", "e", "r", "e", "n", "c", "e">>,
     <<"e", "r", "r", "o", "r", ":", " ", "n", "o", "t", " ", "J", "S", "O", "N">>}

\* (*exec.ExitError).Error() of a failed run
ExitErrors == {<<"e", "x", "i", "t", " ", "s", "t", "a", "t", "u", "s", " ", "1">>}

\* One run of the tool
Invocation(args, exit, stdout, stderr) ==
    [args |-> args, exit |-> exit, stdout |-> stdout, stderr |-> stderr]

\* jsonschemaExec: the error of a failed run,
\* "failed running jsonschema <args>: <err>"
jsonschemaExecError(args, runErr) ==
    NewError(<<"f", "a", "i", "l", "e", "d", " ", "r", "u", "n", "n", "i", "n", "g", " ", "j", "s", "o", "n", "s", "c", "h", "e", "m", "a", " ">> \o Join(args, <<" ">>) \o <<":", " ">> \o runErr)

\* run: the error of a failed bundleSchema, "bundling <schema> failed: <err>"
bundlingError(schema, e) ==
    NewError(<<"b", "u", "n", "d", "l", "i", "n", "g", " ">> \o Quote(schema) \o <<" ", "f", "a", "i", "l", "e", "d", ":", " ">> \o e.msg)

BundleInit ==
    /\ PatchIdle
    /\ RunIdle
    /\ dialect \in Dialects
    /\ inDir \in {<<>>, InDirGiven}
    /\ outDir \in {<<>>, OutDirGiven}
    /\ toolInPath \in BOOLEAN
    /\ corpus \in Corpora
    /\ schemas = <<>>
    /\ bidx = 0
    /\ bpc = "start"
    /\ invocations = <<>>
    /\ bundles = <<>>
    /\ osStderr = <<>>
    /\ bundleErr = NilError

\* return an error from the bundler's run
BundleFail(e) ==
    /\ bundleErr' = e
    /\ bpc' = "failed"

\* run, lines 39-58: the checks of the flags and of the tool, and findFiles
BundleStart ==
    /\ bpc = "start"
    /\ IF inDir = <<>> THEN
           /\ BundleFail(NewError(<<"n", "o", " ", "i", "n", "p", "u", "t", " ", "d", "i", "r", " ", "s", "p", "e", "c", "i", "f", "i", "e", "d">>))
           /\ UNCHANGED <<schemas, bidx>>
       ELSE IF outDir = <<>> THEN
           /\ BundleFail(NewError(<<"n", "o", " ", "o", "u", "t", "p", "u", "t", " ", "d", "i", "r", " ", "s", "p", "e", "c", "i", "f", "i", "e", "d">>))
           /\ UNCHANGED <<schemas, bidx>>
       ELSE IF ~toolInPath THEN
           /\ BundleFail(NewError(<<"j", "s", "o", "n", "s", "c", "h", "e", "m", "a", " ", "t", "o", "o", "l", " ", "n", "o", "t", " ", "f", "o", "u", "n", "d", " ", "i", "n", " ", "$", "P", "A", "T", "H">>))
           /\ UNCHANGED <<schemas, bidx>>
       ELSE
           /\ schemas' = findFiles(corpus)
           /\ bidx' = 1
           /\ bpc' = "loop"
           /\ UNCHANGED bundleErr
    /\ UNCHANGED <<dialect, patchVars, runVars, inDir, outDir, toolInPath, corpus,
                   invocations, bundles, osStderr>>

\* filepath.Walk in findFiles returns an error
FindFilesFails ==
    /\ bpc = "start"
    /\ inDir # <<>> /\ outDir # <<>> /\ toolInPath
    /\ BundleFail(NewError(<<"f", "a", "i", "l", "e", "d", " ", "f", "i", "n", "d", "i", "n", "g", " ", "f", "i", "l", "e", "s", ":", " ", "l", "s", "t", "a", "t", " ">> \o inDir))
    /\ UNCHANGED <<dialect, patchVars, runVars, inDir, outDir, toolInPath, corpus,
                   schemas, bidx, invocations, bundles, osStderr>>

\* bundleSchema with the tool exiting with 0: whatever it printed on stdout is
\* written to the file of the bundle
BundleSchema ==
    /\ bpc = "loop"
    /\ bidx <= Len(schemas)
    /\ \E doc \in ToolDocuments :
           /\ invocations' = Append(invocations,
                  Invocation(bundleArgs(schemas[bidx], inDir), 0, doc, <<>>))
           /\ bundles' = MapPut(bundles, outFileOf(schemas[bidx], inDir, outDir), doc)
    /\ bidx' = bidx + 1
    /\ UNCHANGED <<dialect, patchVars, runVars, inDir, outDir, toolInPath, corpus,
                   schemas, bpc, osStderr, bundleErr>>

\* bundleSchema with the tool failing: jsonschemaExec prints the tool's stderr
\* on os.Stderr and returns the error of cmd.Run wrapped with the arguments
ToolFails ==
    /\ bpc = "loop"
    /\ bidx <= Len(schemas)
    /\ \E stderr \in ToolDiagnostics, runErr \in ExitErrors :
           LET args == bundleArgs(schemas[bidx], inDir)
           IN  /\ invocations' = Append(invocations,
                      Invocation(args, 1, EmptyMap, stderr))
               /\ osStderr' = Append(osStderr, stderr \o <<"\n">>)
               /\ BundleFail(bundlingError(schemas[bidx],
                      jsonschemaExecError(args, runErr)))
    /\ UNCHANGED <<dialect, patchVars, runVars, inDir, outDir, toolInPath, corpus,
                   schemas, bidx, bundles>>

\* bundleSchema with os.MkdirAll or os.WriteFile returning an error
BundleWriteFails ==
    /\ bpc = "loop"
    /\ bidx <= Len(schemas)
    /\ \E doc \in ToolDocuments :
           invocations' = Append(invocations,
               Invocation(bundleArgs(schemas[bidx], inDir), 0, doc, <<>>))
    /\ BundleFail(bundlingError(schemas[bidx],
           NewError(<<"o", "p", "e", "n", " ">> \o outFileOf(schemas[bidx], inDir, outDir)
                    \o <<":", " ", "p", "e", "r", "m", "i", "s", "s", "i", "o", "n", " ", "d", "e", "n", "i", "e", "d">>)))
    /\ UNCHANGED <<dialect, patchVars, runVars, inDir, outDir, toolInPath, corpus,
                   schemas, bidx, bundles, osStderr>>

\* run, line 65: every schema is bundled
BundleFinish ==
    /\ bpc = "loop"
    /\ bidx > Len(schemas)
    /\ bpc' = "done"
    /\ UNCHANGED <<dialect, patchVars, runVars, inDir, outDir, toolInPath, corpus,
                   schemas, bidx, invocations, bundles, osStderr, bundleErr>>

BundleNext ==
    \/ BundleStart
    \/ FindFilesFails
    \/ BundleSchema
    \/ ToolFails
    \/ BundleWriteFails
    \/ BundleFinish

BundleSpec == BundleInit /\ [][BundleNext]_vars

(***************************************************************************)
(* Claims about the bundler.                                               *)
(***************************************************************************)

\* The references of the bundle written at file
BundleRefs(file) ==
    {RefAt(JObject(bundles[file]), loc) : loc \in RefHolders(JObject(bundles[file]))}

\* A reference that points into its own document
FragmentOnly(ref) == HasPrefix(ref, Hash)

\* C11: every bundle file written holds only fragment-only references,
\* whatever the tool returned: an output of the tool that still holds a
\* reference to another file is never written as a bundle.
C11_BundlesAreSelfContained ==
    \A file \in DOMAIN bundles :
        \A ref \in BundleRefs(file) : FragmentOnly(ref)

LastInvocation == invocations[Len(invocations)]

\* The run has returned the error of a failed run of the tool
ToolFailed ==
    /\ bpc = "failed"
    /\ invocations # <<>>
    /\ LastInvocation.exit # 0

\* C12: when the tool fails for an entry file, the error the run returns
\* names the entry path and contains the tool's stderr text, and no bundle
\* file is written for the entry.
C12_ToolErrorCarriesDiagnostic ==
    ToolFailed =>
        /\ ~bundleErr.nil
        /\ Contains(bundleErr.msg, schemas[bidx])
        /\ Contains(bundleErr.msg, LastInvocation.stderr)
        /\ outFileOf(schemas[bidx], inDir, outDir) \notin DOMAIN bundles

(***************************************************************************)
(* Claims about the generation run: checkouts, errors, the synthesized     *)
(* manifest's pointers and the dialect.                                    *)
(***************************************************************************)

\* writeSchemas is reading the working tree for the version in work
ReadingTree == pc \in {"checkedout", "walk"}

\* The working tree is at the reference of the version in work, and every
\* document under dir carries the label of the reference the tree is at
ReadsOwnTree ==
    /\ ReadingTree => head = gitRefs[idx] /\ ver = VersionLabel(head)
    /\ DOMAIN dirFiles # {} => IdsUseLabel(VersionLabel(head))
    /\ \A path \in Range(written) \cap DOMAIN dirFiles :
           \E f \in Range(wt.files) :
               /\ relPathOf(f, getSpecPath(wt)) = path
               /\ dirFiles[path]["title"] = JString(f)

\* A step that changes what is checked out is a checkout made between two
\* versions, to the reference of the next one
CheckoutBetweenVersions ==
    (wt' # wt \/ head' # head) =>
        /\ pc = "loop"
        /\ pc' = "checkedout"
        /\ head' = gitRefs[idx]

\* C13: checkouts into the working copy are serialized: the tree changes only
\* by the checkout that begins a version, never while a version is being
\* read, and every document of a version is produced from that version's tree.
C13_CheckoutsSerialized ==
    []ReadsOwnTree /\ [][CheckoutBetweenVersions]_vars

\* C13 witness: the second version of a run being read, the first processed
C13_Witness ==
    /\ pc = "walk"
    /\ idx = 2
    /\ Len(processed) = 1
    /\ DOMAIN dirFiles # {}
    /\ head = gitRefs[2]
    /\ gitRefs[1] # gitRefs[2]

\* The .spec.yml files of the working tree, as the paths of their schemas
SpecFilesOfTree ==
    {relPathOf(f, getSpecPath(wt)) :
        f \in {g \in Range(wt.files) : HasSuffix(Base(g), SpecYml)}}

\* The run failed in a step made for one document
DocumentError ==
    /\ pc = "failed"
    /\ err.msg \in {"walk failed", "open failed", "failed to decode YAML",
                    "spec key not found in YAML", "spec is not an object",
                    "mkdir failed", "write failed"}

\* The paths of the document the failed step was made for: the file in the
\* working tree and its schema, or the root manifest
FailedDocument ==
    IF pending # <<>>
    THEN {Head(pending), relPathOf(Head(pending), getSpecPath(wt))}
    ELSE {ManifestJsonSchemaJson}

\* C14: no error is suppressed: the run ends with an error exactly when a
\* step failed, it stops at the failing version (the versions before it are
\* processed, none after it is checked out), a version counts as processed
\* only with every spec file of its tree written, and an error for a
\* document names that document's path.
C14_ErrorsPropagate ==
    /\ (pc = "failed") <=> (err # NoError)
    /\ pc = "done" => Len(processed) = Len(gitRefs)
    /\ (pc = "failed" /\ idx >= 1) =>
           /\ Len(processed) = idx - 1
           /\ head \in {gitRefs[i] : i \in 1..idx} \cup {[name |-> <<>>]}
    /\ (pc \in {"loop", "done"} /\ processed # <<>>) =>
           SpecFilesOfTree \subseteq DOMAIN dirFiles
    /\ DocumentError =>
           \E path \in FailedDocument : Contains(err.path, path)

\* The file a pointer "./<path>" of the root manifest names
PointerTarget(ref) == TrimPrefix(ref, <<".", "/">>)

\* C15: every $defs entry of a synthesized manifest points to a file that
\* was written in the version's corpus.
C15_ManifestPointersResolve ==
    ManifestSynthesized =>
        \A name \in DOMAIN SynthesizedManifest["$defs"].m :
            PointerTarget(SynthesizedManifest["$defs"].m[name].m["$ref"].s)
                \in DOMAIN dirFiles

\* C16: every document written for a version, patched or synthesized, has
\* $schema equal to the dialect of the run.
C16_SchemaIsConfiguredDialect ==
    \A path \in DOMAIN dirFiles :
        /\ "$schema" \in DOMAIN dirFiles[path]
        /\ dirFiles[path]["$schema"] = JString(dialect)

====
